---- MODULE Spec2Model ----
(***************************************************************************)
(* Model of images/artifact-downloader/check-size/check-hf-size.py:        *)
(* one run of the script, from reading MODEL_PATH to process exit.         *)
(*                                                                         *)
(* A line written by print() is a sequence of string pieces: the pieces of *)
(* an f-string in order, or the decimal digits of an integer.              *)
(***************************************************************************)
EXTENDS Integers, Sequences, FiniteSets, TLC

\* ---------------------------------------------------------------- bounds
MaxSiblings == 3

\* Repository identifiers MODEL_PATH can hold.
ModelIds == {"org/a", "org/b"}

\* File sizes the hub reports (bytes).
SizeValues == {0, 10, 20, 995}

\* ------------------------------------------------------------ data model
\* RepoSibling.size: None, an int, or a value sum() cannot add to an int.
NoneSize == [t |-> "None", v |-> 0]
IntSize(n) == [t |-> "int", v |-> n]
StrSize == [t |-> "str", v |-> 0]
Sizes == {NoneSize, StrSize} \cup {IntSize(n) : n \in SizeValues}

SiblingLists == UNION {[1..n -> Sizes] : n \in 0..MaxSiblings}

\* ModelInfo.siblings: a list, None, or the attribute is missing.
Infos == {[siblings |-> "list", items |-> s] : s \in SiblingLists}
           \cup {[siblings |-> "None", items |-> <<>>],
                 [siblings |-> "missing", items |-> <<>>]}
NoInfo == [siblings |-> "unset", items |-> <<>>]

\* Exception classes and their direct base class.  GatedRepoError derives
\* from RepositoryNotFoundError in huggingface_hub (errors.py).
Base(cls) ==
  CASE cls = "GatedRepoError"          -> "RepositoryNotFoundError"
    [] cls = "RepositoryNotFoundError" -> "HfHubHTTPError"
    [] cls = "HfHubHTTPError"          -> "Exception"
    [] cls = "ReadTimeout"             -> "Exception"
    [] cls = "TypeError"               -> "Exception"
    [] cls = "AttributeError"          -> "Exception"
    [] cls = "KeyError"                -> "Exception"
    [] cls = "Exception"               -> "BaseException"
    [] OTHER                           -> "object"

RECURSIVE IsSubclass(_, _)
IsSubclass(cls, target) ==
  IF cls = target THEN TRUE
  ELSE IF cls = "object" THEN FALSE
  ELSE IsSubclass(Base(cls), target)

NoExc == [cls |-> "none", msg |-> ""]
Exc(c, m) == [cls |-> c, msg |-> m]

\* What HfApi().model_info can raise: the two classified errors and
\* unclassified Exception subclasses (HTTP error, network timeout).
LookupErrors ==
  {Exc("RepositoryNotFoundError", "404 Client Error"),
   Exc("GatedRepoError", "403 Client Error"),
   Exc("HfHubHTTPError", "500 Server Error"),
   Exc("ReadTimeout", "Read timed out")}

\* ------------------------------------------------------------ conversions
DigitChar == <<"0", "1", "2", "3", "4", "5", "6", "7", "8", "9">>

RECURSIVE Digits(_)
Digits(n) ==
  IF n < 10 THEN <<DigitChar[n + 1]>>
  ELSE Digits(n \div 10) \o <<DigitChar[(n % 10) + 1]>>

\* str(int)
Str(n) == IF n < 0 THEN <<"-">> \o Digits(0 - n) ELSE Digits(n)

\* ------------------------------------------------------------ aggregation
\* f.size or 0
SizeOrZero_NoDefault(size) == size
SizeOrZero(size) ==
  IF size.t = "None" \/ (size.t = "int" /\ size.v = 0) THEN IntSize(0)
  ELSE size

Add_Subtract(acc, v) == acc - v
Add(acc, v) == acc + v

\* sum(f.size or 0 for f in siblings): left fold from 0, raising TypeError
\* at the first element that is not a number.
RECURSIVE SumFrom(_, _, _)
SumFrom(items, i, acc) ==
  IF i > Len(items) THEN [ok |-> TRUE, value |-> acc, exc |-> NoExc]
  ELSE LET x == SizeOrZero(items[i]) IN
       IF x.t = "int" THEN SumFrom(items, i + 1, Add(acc, x.v))
       ELSE IF x.t = "None"
         THEN [ok |-> FALSE, value |-> 0,
               exc |-> Exc("TypeError", "unsupported operand type(s) for +: 'int' and 'NoneType'")]
         ELSE [ok |-> FALSE, value |-> 0,
               exc |-> Exc("TypeError", "unsupported operand type(s) for +: 'int' and 'str'")]

\* The argument of print on line 8, evaluated before print is called.
Total(inf) ==
  CASE inf.siblings = "list"    -> SumFrom(inf.items, 1, 0)
    [] inf.siblings = "None"    ->
         [ok |-> FALSE, value |-> 0,
          exc |-> Exc("TypeError", "'NoneType' object is not iterable")]
    [] OTHER ->
         [ok |-> FALSE, value |-> 0,
          exc |-> Exc("AttributeError", "'ModelInfo' object has no attribute 'siblings'")]

\* ------------------------------------------------------------ environment
\* os.environ['MODEL_PATH']: KeyError when the variable is absent.
Absent == "<absent>"
EnvironGetItem_Get(e) == [ok |-> TRUE, value |-> e, exc |-> NoExc]
EnvironGetItem(e) ==
  IF e = Absent THEN [ok |-> FALSE, value |-> "", exc |-> Exc("KeyError", "'MODEL_PATH'")]
  ELSE [ok |-> TRUE, value |-> e, exc |-> NoExc]

\* ------------------------------------------------------------ handlers
\* The except clauses of the try statement, in source order.
ExceptClauses_GenericFirst == <<"Exception", "RepositoryNotFoundError", "GatedRepoError">>
ExceptClauses_NoCatchAll == <<"RepositoryNotFoundError", "GatedRepoError">>
ExceptClauses == <<"RepositoryNotFoundError", "GatedRepoError", "Exception">>

\* Index of the first clause whose class the exception is an instance of;
\* 0 when no clause matches.
Matching(e) == {k \in 1..Len(ExceptClauses) : IsSubclass(e.cls, ExceptClauses[k])}
Handler(e) ==
  IF Matching(e) = {} THEN 0
  ELSE CHOOSE k \in Matching(e) : \A j \in Matching(e) : k <= j

NotFoundLines(id) ==
  << <<"Repository Not Found: ", id>>,
     <<"Check the model name or ensure it exists on HuggingFace.">> >>
GatedLines(id) ==
  << <<"Model requires authentication: ", id>>,
     <<"Set HF_TOKEN environment variable with a valid HuggingFace token.">>,
     <<"Cannot access gated repo: ", id>> >>
OtherLines(e) == << <<"Failed to fetch model info: ", e.msg>> >>

\* Body of the clause for class c: lines printed and the sys.exit status.
HandlerBody_ToStdout(c, id, e) ==
  CASE c = "RepositoryNotFoundError" -> [out |-> NotFoundLines(id), err |-> <<>>, code |-> 1]
    [] c = "GatedRepoError"          -> [out |-> GatedLines(id), err |-> <<>>, code |-> 2]
    [] OTHER                         -> [out |-> OtherLines(e), err |-> <<>>, code |-> 3]
HandlerBody_WrongCode(c, id, e) ==
  CASE c = "RepositoryNotFoundError" -> [out |-> <<>>, err |-> NotFoundLines(id), code |-> 1]
    [] c = "GatedRepoError"          -> [out |-> <<>>, err |-> GatedLines(id), code |-> 2]
    [] OTHER                         -> [out |-> <<>>, err |-> OtherLines(e), code |-> 1]
HandlerBody(c, id, e) ==
  CASE c = "RepositoryNotFoundError" -> [out |-> <<>>, err |-> NotFoundLines(id), code |-> 1]
    [] c = "GatedRepoError"          -> [out |-> <<>>, err |-> GatedLines(id), code |-> 2]
    [] OTHER                         -> [out |-> <<>>, err |-> OtherLines(e), code |-> 3]

\* The interpreter's report of an uncaught exception.
TracebackLines(e) ==
  << <<"Traceback (most recent call last):">>, <<e.cls, ": ", e.msg>> >>

\* ------------------------------------------------------------ state
VARIABLES
  env,          \* os.environ['MODEL_PATH'], or Absent
  pc,           \* position in the script
  MODEL_PATH,   \* module global, line 5
  info,         \* module global, line 7
  exc,          \* exception in flight / last raised
  stdout,       \* lines written to sys.stdout
  stderr,       \* lines written to sys.stderr
  exitCode,     \* <<>> while running, <<status>> once the process has exited
  lookups,      \* number of model_info calls made
  aggregations  \* number of times line 8 started evaluating

vars == <<env, pc, MODEL_PATH, info, exc, stdout, stderr, exitCode, lookups, aggregations>>

Init ==
  /\ env \in ModelIds \cup {Absent}
  /\ pc = "line5"
  /\ MODEL_PATH = ""
  /\ info = NoInfo
  /\ exc = NoExc
  /\ stdout = <<>>
  /\ stderr = <<>>
  /\ exitCode = <<>>
  /\ lookups = 0
  /\ aggregations = 0

\* line 5: MODEL_PATH = os.environ['MODEL_PATH'] (outside the try)
ReadEnv ==
  /\ pc = "line5"
  /\ LET r == EnvironGetItem(env) IN
       IF r.ok
       THEN /\ MODEL_PATH' = r.value
            /\ pc' = "line7"
            /\ exc' = exc
       ELSE /\ MODEL_PATH' = MODEL_PATH
            /\ pc' = "uncaught"
            /\ exc' = r.exc
  /\ UNCHANGED <<env, info, stdout, stderr, exitCode, lookups, aggregations>>

\* line 7, returning: info = HfApi().model_info(MODEL_PATH, files_metadata=True)
LookupReturns ==
  /\ pc = "line7"
  /\ \E i \in Infos : info' = i
  /\ lookups' = lookups + 1
  /\ pc' = "line8"
  /\ UNCHANGED <<env, MODEL_PATH, exc, stdout, stderr, exitCode, aggregations>>

\* line 7, raising
LookupRaises ==
  /\ pc = "line7"
  /\ \E e \in LookupErrors : exc' = e
  /\ lookups' = lookups + 1
  /\ pc' = "except"
  /\ UNCHANGED <<env, MODEL_PATH, info, stdout, stderr, exitCode, aggregations>>

\* line 8: print(sum(f.size or 0 for f in info.siblings))
Aggregate ==
  /\ pc = "line8"
  /\ aggregations' = aggregations + 1
  /\ LET r == Total(info) IN
       IF r.ok
       THEN /\ stdout' = Append(stdout, Str(r.value))
            /\ pc' = "end"
            /\ exc' = exc
       ELSE /\ stdout' = stdout
            /\ pc' = "except"
            /\ exc' = r.exc
  /\ UNCHANGED <<env, MODEL_PATH, info, stderr, exitCode, lookups>>

\* lines 9-20: the first matching except clause runs and calls sys.exit;
\* an exception no clause matches propagates.
HandleException_Retry ==
  /\ pc = "except"
  /\ IF lookups < 2
     THEN /\ pc' = "line7"
          /\ UNCHANGED <<stdout, stderr, exitCode>>
     ELSE /\ stdout' = stdout \o HandlerBody(ExceptClauses[Handler(exc)], MODEL_PATH, exc).out
          /\ stderr' = stderr \o HandlerBody(ExceptClauses[Handler(exc)], MODEL_PATH, exc).err
          /\ exitCode' = <<HandlerBody(ExceptClauses[Handler(exc)], MODEL_PATH, exc).code>>
          /\ pc' = "done"
  /\ UNCHANGED <<env, MODEL_PATH, info, exc, lookups, aggregations>>
HandleException ==
  /\ pc = "except"
  /\ LET k == Handler(exc) IN
       IF k = 0
       THEN /\ pc' = "uncaught"
            /\ UNCHANGED <<stdout, stderr, exitCode>>
       ELSE LET b == HandlerBody(ExceptClauses[k], MODEL_PATH, exc) IN
            /\ stdout' = stdout \o b.out
            /\ stderr' = stderr \o b.err
            /\ exitCode' = <<b.code>>
            /\ pc' = "done"
  /\ UNCHANGED <<env, MODEL_PATH, info, exc, lookups, aggregations>>

\* An uncaught exception: the interpreter prints the traceback and exits 1.
Crash ==
  /\ pc = "uncaught"
  /\ stderr' = stderr \o TracebackLines(exc)
  /\ exitCode' = <<1>>
  /\ pc' = "done"
  /\ UNCHANGED <<env, MODEL_PATH, info, exc, stdout, lookups, aggregations>>

\* End of the script: implicit exit status 0.
Finish ==
  /\ pc = "end"
  /\ exitCode' = <<0>>
  /\ pc' = "done"
  /\ UNCHANGED <<env, MODEL_PATH, info, exc, stdout, stderr, lookups, aggregations>>

Next ==
  \/ ReadEnv
  \/ LookupReturns
  \/ LookupRaises
  \/ Aggregate
  \/ HandleException
  \/ Crash
  \/ Finish

Spec == Init /\ [][Next]_vars

\* ------------------------------------------------------------ properties
Terminated == pc = "done"

Contains(stream, line) == \E i \in 1..Len(stream) : stream[i] = line

\* Value of a decimal digit character; -1 for any other piece.
DigitValue(ch) ==
  CASE ch = "0" -> 0 [] ch = "1" -> 1 [] ch = "2" -> 2 [] ch = "3" -> 3
    [] ch = "4" -> 4 [] ch = "5" -> 5 [] ch = "6" -> 6 [] ch = "7" -> 7
    [] ch = "8" -> 8 [] ch = "9" -> 9 [] OTHER -> -1

\* A canonical non-negative decimal numeral: digits only, no leading zero.
IsDecimal(line) ==
  /\ Len(line) >= 1
  /\ \A i \in 1..Len(line) : DigitValue(line[i]) >= 0
  /\ (Len(line) > 1 => line[1] # "0")

RECURSIVE DecimalValue(_)
DecimalValue(line) ==
  IF Len(line) = 0 THEN 0
  ELSE 10 * DecimalValue(SubSeq(line, 1, Len(line) - 1)) + DigitValue(line[Len(line)])

\* Every size is absent or an integer.
AllSummable(items) == \A i \in 1..Len(items) : items[i].t \in {"None", "int"}

\* The total the contract asks for: absent sizes count as 0.
RECURSIVE ContractTotal(_)
ContractTotal(items) ==
  IF items = <<>> THEN 0
  ELSE (IF Head(items).t = "int" THEN Head(items).v ELSE 0) + ContractTotal(Tail(items))

\* The first line of each handler's diagnostics.
AnyDiagnostic(stream) ==
  \E i \in 1..Len(stream) :
    stream[i][1] \in {"Repository Not Found: ", "Model requires authentication: ",
                      "Cannot access gated repo: ", "Failed to fetch model info: "}

\* The lookup raised e (as opposed to line 5 or line 8 raising).
LookupRaised == lookups >= 1 /\ aggregations = 0 /\ exc # NoExc

\* C1: with MODEL_PATH set and a sibling list whose sizes are absent or
\* integers, the run ends with exit code 0 and stdout holding exactly one
\* line, the decimal numeral of the sum with absent sizes counted as 0;
\* sizes [10, 20, None] print "30".
C1_SumPrinted ==
  (Terminated /\ env # Absent /\ info.siblings = "list" /\ AllSummable(info.items))
    => /\ exitCode = <<0>>
       /\ Len(stdout) = 1
       /\ IsDecimal(stdout[1])
       /\ DecimalValue(stdout[1]) = ContractTotal(info.items)
       /\ (info.items = <<IntSize(10), IntSize(20), NoneSize>>
             => stdout = << <<"3", "0">> >>)

C1_Witness ==
  /\ Terminated
  /\ info.siblings = "list"
  /\ info.items = <<IntSize(10), IntSize(20), NoneSize>>
  /\ stdout = << <<"3", "0">> >>
  /\ exitCode = <<0>>

\* C2: when the lookup raises GatedRepoError the run ends with exit code 2
\* and stderr holds the authentication message, the HF_TOKEN hint and the
\* gated-repo message.
C2_GatedExitsTwo ==
  (Terminated /\ LookupRaised /\ exc.cls = "GatedRepoError")
    => /\ exitCode = <<2>>
       /\ Contains(stderr, <<"Model requires authentication: ", env>>)
       /\ Contains(stderr, <<"Set HF_TOKEN environment variable with a valid HuggingFace token.">>)
       /\ Contains(stderr, <<"Cannot access gated repo: ", env>>)

\* C3: when the lookup raises RepositoryNotFoundError the run ends with exit
\* code 1, stderr holds "Repository Not Found: {id}" followed by the hint to
\* check the name, and stdout is empty.
C3_NotFoundExitsOne ==
  (Terminated /\ LookupRaised /\ exc.cls = "RepositoryNotFoundError")
    => /\ exitCode = <<1>>
       /\ \E i \in 1..(Len(stderr) - 1) :
            /\ stderr[i] = <<"Repository Not Found: ", env>>
            /\ stderr[i + 1] = <<"Check the model name or ensure it exists on HuggingFace.">>
       /\ stdout = <<>>

C3_Witness ==
  /\ Terminated
  /\ LookupRaised
  /\ exc.cls = "RepositoryNotFoundError"
  /\ exitCode = <<1>>
  /\ stderr[1] = <<"Repository Not Found: ", "org/a">>

\* C4: when the lookup raises an exception that is neither not-found nor
\* gated, the run ends with exit code 3, stderr holds "Failed to fetch model
\* info: {error}", and neither the not-found nor the gated messages appear.
C4_OtherFailureExitsThree ==
  (Terminated /\ LookupRaised
     /\ ~IsSubclass(exc.cls, "RepositoryNotFoundError"))
    => /\ exitCode = <<3>>
       /\ Contains(stderr, <<"Failed to fetch model info: ", exc.msg>>)
       /\ \A i \in 1..Len(stderr) :
            stderr[i][1] \notin {"Repository Not Found: ", "Model requires authentication: ",
                                 "Cannot access gated repo: "}

C4_Witness ==
  /\ Terminated
  /\ LookupRaised
  /\ exc.cls = "ReadTimeout"
  /\ exitCode = <<3>>
  /\ stderr = << <<"Failed to fetch model info: ", "Read timed out">> >>

\* C5: stdout is non-empty exactly in the runs that end with exit code 0;
\* a run ending in any failure leaves stdout empty, and a successful run
\* leaves none of the diagnostic messages on stderr.  Nothing is ever
\* written to stdout before an error is reported.
C5_NoPartialResults ==
  /\ (stdout # <<>> => pc \in {"end", "done"} /\ ~AnyDiagnostic(stderr))
  /\ (Terminated =>
        /\ (stdout # <<>> <=> exitCode = <<0>>)
        /\ (exitCode # <<0>> => stdout = <<>>)
        /\ (exitCode = <<0>> => Len(stdout) = 1 /\ IsDecimal(stdout[1]) /\ ~AnyDiagnostic(stderr)))

C5_Witness ==
  /\ Terminated
  /\ exitCode = <<3>>
  /\ aggregations = 1
  /\ stdout = <<>>
  /\ AnyDiagnostic(stderr)

\* C6: with MODEL_PATH absent no lookup is ever made, nothing is written to
\* stdout, no handler diagnostic is printed, and the run ends with a
\* non-zero exit status produced by the uncaught KeyError.
C6_MissingEnvCrashes ==
  env = Absent
    => /\ lookups = 0
       /\ aggregations = 0
       /\ stdout = <<>>
       /\ ~AnyDiagnostic(stderr)
       /\ pc \in {"line5", "uncaught", "done"}
       /\ (Terminated => exitCode # <<0>> /\ exitCode # <<>> /\ exc.cls = "KeyError")

C6_Witness ==
  /\ env = Absent
  /\ Terminated
  /\ exitCode = <<1>>
  /\ lookups = 0
  /\ stderr # <<>>

C8_ExitCodeIdentifiesOutcome ==
  Terminated =>
    /\ (exitCode = <<0>> => exc = NoExc /\ stdout # <<>>)
    /\ (exitCode = <<1>> => LookupRaised /\ exc.cls = "RepositoryNotFoundError")
    /\ (exitCode = <<2>> => LookupRaised /\ exc.cls = "GatedRepoError")
    /\ (exitCode = <<3>> => LookupRaised /\ ~IsSubclass(exc.cls, "RepositoryNotFoundError"))

\* C9: model_info is called at most once; once it has raised, the next step
\* makes no further lookup and no aggregation, writes the diagnostics of
\* exactly one handler to stderr and terminates the run; a terminated run
\* takes no further step.
C9_NoRetryErrorsTerminal ==
  [][ /\ lookups' <= 1
      /\ (pc = "except" /\ LookupRaised) =>
           /\ lookups' = lookups
           /\ aggregations' = aggregations
           /\ stdout' = stdout
           /\ pc' = "done"
           /\ exitCode' # <<>>
           /\ \/ stderr' = stderr \o
                   << <<"Repository Not Found: ", env>>,
                      <<"Check the model name or ensure it exists on HuggingFace.">> >>
              \/ stderr' = stderr \o
                   << <<"Model requires authentication: ", env>>,
                      <<"Set HF_TOKEN environment variable with a valid HuggingFace token.">>,
                      <<"Cannot access gated repo: ", env>> >>
              \/ stderr' = stderr \o << <<"Failed to fetch model info: ", exc.msg>> >>
      /\ ~Terminated
    ]_vars

C9_Witness ==
  /\ Terminated
  /\ LookupRaised
  /\ lookups = 1
  /\ Len(stderr) = 1
  /\ exc.cls = "HfHubHTTPError"

\* C10: an exception raised on line 8 after the lookup returned (siblings
\* missing, siblings None, a size that cannot be added) is caught by the
\* catch-all clause: exit code 3, "Failed to fetch model info: {error}" on
\* stderr, nothing on stdout.
C10_AggregationFailureCaught ==
  (Terminated /\ aggregations >= 1 /\ exc # NoExc)
    => /\ exitCode = <<3>>
       /\ stderr = << <<"Failed to fetch model info: ", exc.msg>> >>
       /\ stdout = <<>>

C10_Witness ==
  /\ Terminated
  /\ info.siblings = "None"
  /\ exc.cls = "TypeError"
  /\ exitCode = <<3>>
  /\ stdout = <<>>

====
